---- MODULE Spec2Model ----
(***************************************************************************)
(* Model of src/app.py: the /api/merge-docx request handler (merge_docx),  *)
(* its helper merge_documents_properly and cleanup_files, run by several   *)
(* concurrent requests over one upload directory and one wall clock.       *)
(*                                                                         *)
(* File names and paths are sequences of one-character strings, so that    *)
(* lower(), endswith(), rsplit() and secure_filename() are computed.       *)
(***************************************************************************)
EXTENDS Integers, Sequences, FiniteSets, TLC

(* ------------------------------ bounds -------------------------------- *)

\* number of concurrent requests
NumReq == 2
\* longest content_files[] list of a request
MaxContent == 2
\* last value of the wall clock (the clock starts at 0)
MaxClock == 1
\* I/O failures (a save, a merge or a read that raises without another request
\* causing it, an os.remove that raises) injected in one behaviour
MaxFaults == 1

Reqs == 1..NumReq

(* ------------------------------ strings ------------------------------- *)

Lowers == <<"a", "b", "c", "d", "n", "o", "t", "x">>
Uppers == <<"A", "B", "C", "D", "N", "O", "T", "X">>

\* str.lower() on one character
LowerChar(c) ==
  IF \E i \in 1..Len(Uppers) : Uppers[i] = c
  THEN Lowers[CHOOSE i \in 1..Len(Uppers) : Uppers[i] = c]
  ELSE c

\* str.lower()
Lower(s) == [i \in 1..Len(s) |-> LowerChar(s[i])]

\* str.endswith(suffix)
EndsWith(s, suf) ==
  /\ Len(s) >= Len(suf)
  /\ SubSeq(s, Len(s) - Len(suf) + 1, Len(s)) = suf

DotDocx == <<".", "d", "o", "c", "x">>
WithCover == <<"_", "w", "i", "t", "h", "_", "c", "o", "v", "e", "r">> \o DotDocx
MergedPrefix == <<"m", "e", "r", "g", "e", "d", "_">>
ZipName == <<"m", "e", "r", "g", "e", "d", "_", "d", "o", "c", "u", "m", "e", "n", "t", "s", ".", "z", "i", "p">>

\* allowed_file(filename)
allowed_file(filename) == filename # <<>> /\ EndsWith(Lower(filename), DotDocx)

\* s.rsplit(sep, 1)[0]: the part of s before the last occurrence of sep, or
\* all of s when sep does not occur (the match is case-sensitive)
RSplitHead(s, sep) ==
  LET hits == {k \in 1..Len(s) :
                 k + Len(sep) - 1 <= Len(s) /\ SubSeq(s, k, k + Len(sep) - 1) = sep}
  IN IF hits = {} THEN s
     ELSE LET k == CHOOSE h \in hits : \A g \in hits : g <= h
          IN SubSeq(s, 1, k - 1)

\* characters kept by werkzeug's _filename_ascii_strip_re, [^A-Za-z0-9_.-]
IsSafeChar(c) ==
  \/ \E i \in 1..Len(Lowers) : Lowers[i] = c \/ Uppers[i] = c
  \/ c \in {"e", "g", "h", "i", "m", "r", "v", "w", "_", ".", "-",
            "0", "1", "2", "3", "4", "5", "6", "7", "8", "9"}

RECURSIVE SplitJoin(_, _, _)
\* "_".join(s.split()): every run of whitespace between two words becomes one
\* "_", whitespace at the ends is dropped. started: a word has been emitted;
\* pending: whitespace was seen since
SplitJoin(s, started, pending) ==
  IF s = <<>> THEN <<>>
  ELSE IF Head(s) = " " THEN SplitJoin(Tail(s), started, started)
  ELSE (IF pending THEN <<"_">> ELSE <<>>) \o <<Head(s)>>
         \o SplitJoin(Tail(s), TRUE, FALSE)

RECURSIVE StripLeft(_)
StripLeft(s) ==
  IF s # <<>> /\ Head(s) \in {".", "_"} THEN StripLeft(Tail(s)) ELSE s

RECURSIVE StripRight(_)
StripRight(s) ==
  IF s # <<>> /\ s[Len(s)] \in {".", "_"}
  THEN StripRight(SubSeq(s, 1, Len(s) - 1)) ELSE s

\* werkzeug.utils.secure_filename on ASCII names: path separators become
\* spaces, whitespace runs become "_", other characters outside
\* [A-Za-z0-9_.-] are dropped, leading and trailing "." and "_" are stripped
secure_filename(filename) ==
  LET nosep == [i \in 1..Len(filename) |->
                  IF filename[i] = "/" THEN " " ELSE filename[i]]
      joined == SplitJoin(nosep, FALSE, FALSE)
      kept == SelectSeq(joined, IsSafeChar)
  IN StripRight(StripLeft(kept))

(* ------------------------------ inputs -------------------------------- *)

N_a_docx == <<"a">> \o DotDocx
N_b_DOCX == <<"b", ".", "D", "O", "C", "X">>
N_dot_a_docx == <<".", "/", "a">> \o DotDocx
N_n_txt == <<"n", ".", "t", "x", "t">>
N_t_txt == <<"t", ".", "t", "x", "t">>

\* filenames a client may give the template part ("" is an empty file field)
TemplateNames == {N_a_docx, N_t_txt, <<>>}
\* filenames a client may give a content part
ContentNames == {N_b_DOCX, N_dot_a_docx, N_n_txt}

ContentLists == UNION {[1..n -> ContentNames] : n \in 1..MaxContent}

\* request.files of one request: which fields are present, and the filenames
RequestInputs ==
       {[has_template |-> FALSE, template |-> <<>>,
         has_content |-> TRUE, content |-> <<N_dot_a_docx>>]}
  \cup {[has_template |-> TRUE, template |-> N_a_docx,
         has_content |-> FALSE, content |-> <<>>]}
  \cup [has_template : {TRUE}, template : TemplateNames,
        has_content : {TRUE}, content : ContentLists]

(* ----------------------------- documents ------------------------------ *)

\* a document is a sequence of parts; the uploaded bytes of each file are
\* distinct, so a part names the request and the file it came from
PageBreak == <<"PB", 0, 0>>
TemplateDoc(r) == << <<"T", r, 0>> >>
ContentDoc(r, i) == << <<"C", r, i>> >>

\* the bytes of a file: a document, or a truncated file (ok = FALSE)
Bytes(doc) == [doc |-> doc, ok |-> TRUE]
Truncated == [doc |-> <<>>, ok |-> FALSE]

(* ------------------------------- state -------------------------------- *)

VARIABLES
  request,         \* request.files of each request
  clock,           \* the last value datetime.now() returned to any request
  disk,            \* the upload directory: path -> [bytes, owner]
  pc,              \* position of each request in merge_docx
  idx,             \* position of the for loop over content_files
  uploaded_paths,  \* merge_docx local
  merged_paths,    \* merge_docx local, sequence of [filename, path]
  data,            \* bytes read back, as (filename, bytes) pairs
  exc,             \* message of the exception being handled
  resp,            \* the response returned
  written,         \* history: paths at which the request, while it runs, created a file
  raised,          \* history: an exception was raised in the try block
  rmfail,          \* history: paths whose os.remove raised in cleanup_files
  cleaned,         \* history: how often the request called cleanup_files
  faults           \* I/O failures injected so far

vars == <<request, clock, disk, pc, idx, uploaded_paths, merged_paths, data,
          exc, resp, written, raised, rmfail, cleaned, faults>>

\* no response yet
NoResp == [status |-> 0, kind |-> "none", error |-> "", download |-> <<>>, body |-> <<>>]

\* All requests upload files of the same names (the case in which their
\* paths can meet); the bytes of each file are its own. Nothing is on disk.
Init ==
  /\ \E form \in RequestInputs : request = [r \in Reqs |-> form]
  /\ clock = 0
  /\ disk = [p \in {} |-> Truncated]
  /\ pc = [r \in Reqs |-> "start"]
  /\ idx = [r \in Reqs |-> 1]
  /\ uploaded_paths = [r \in Reqs |-> <<>>]
  /\ merged_paths = [r \in Reqs |-> <<>>]
  /\ data = [r \in Reqs |-> <<>>]
  /\ exc = [r \in Reqs |-> ""]
  /\ resp = [r \in Reqs |-> NoResp]
  /\ written = [r \in Reqs |-> {}]
  /\ raised = [r \in Reqs |-> FALSE]
  /\ rmfail = [r \in Reqs |-> {}]
  /\ cleaned = [r \in Reqs |-> 0]
  /\ faults = 0

(* ------------------------------ helpers ------------------------------- *)

Digits == <<"0", "1", "2", "3", "4", "5", "6", "7", "8", "9">>

\* datetime.now().strftime('%Y%m%d%H%M%S%f'): fixed width, one digit here
StrfTime(t) == <<Digits[t + 1]>>

\* f"{ts}_{secure_filename(filename)}" in the upload folder (lines 53-55, 63-64)
UploadPath(t, filename) == StrfTime(t) \o <<"_">> \o secure_filename(filename)

\* f"merged_{ts}_{secure_filename(output_filename)}" in the upload folder
MergedPath(t, output_filename) ==
  MergedPrefix \o StrfTime(t) \o <<"_">> \o secure_filename(output_filename)

\* out_basename of a content file (line 68)
OutBasename(filename) == RSplitHead(secure_filename(filename), DotDocx) \o WithCover

\* open(path, 'wb') and write: the file is created or replaced
WriteFile(d, p, bytes, r) ==
  [q \in (DOMAIN d) \cup {p} |->
     IF q = p THEN [doc |-> bytes.doc, ok |-> bytes.ok, owner |-> r] ELSE d[q]]

\* Document(path) succeeds: the file exists and holds a whole document
Loadable(d, p) == p \in DOMAIN d /\ d[p].ok

Range(seq) == {seq[i] : i \in 1..Len(seq)}

\* the values datetime.now() may return: the clock is read again within the
\* same microsecond, or it has advanced
Now == {clock} \cup (IF clock < MaxClock THEN {clock + 1} ELSE {})

\* result of a write that may raise: the file whole, the file created and
\* left truncated by an exception, or an exception before the file exists
SaveOutcomes == {"ok", "partial", "nofile"}

\* an injected failure is counted; none is injected beyond MaxFaults
Inject(n) == faults + n <= MaxFaults /\ faults' = faults + n

\* the sets of paths whose os.remove may raise during one cleanup_files call
RmFailures(d, paths) ==
  {f \in SUBSET (Range(paths) \cap DOMAIN d) : faults + Cardinality(f) <= MaxFaults}

\* cleanup_files with a fault: the first os.remove that raises ends the loop
cleanup_files_abort(d, paths, fail) ==
  LET stops == {i \in 1..Len(paths) : paths[i] \in fail /\ paths[i] \in DOMAIN d}
      upto == IF stops = {} THEN Len(paths)
              ELSE (CHOOSE i \in stops : \A j \in stops : i <= j) - 1
  IN [q \in (DOMAIN d) \ {paths[i] : i \in 1..upto} |-> d[q]]

\* cleanup_files(paths): every listed path that exists is removed, except
\* those whose os.remove raises (fail); the exception is swallowed per path
cleanup_files(d, paths, fail) ==
  [q \in (DOMAIN d) \ (Range(paths) \ fail) |-> d[q]]

\* the composed document of merge_documents_properly: the template, a page
\* break run added to its last paragraph, then the content
Compose(template_doc, content_doc) == template_doc \o <<PageBreak>> \o content_doc

\* merge_documents_properly with a fault: the composed document is also kept
\* as the template, so the next merge starts from it
merge_documents_properly_shared(d, template_path, content_path, out_path, r) ==
  LET composed == Bytes(Compose(d[template_path].doc, d[content_path].doc))
  IN WriteFile(WriteFile(d, out_path, composed, r), template_path, composed, r)

\* merge_documents_properly(template_path, content_path, output_filename) on
\* the upload directory d, saving to out_path
merge_documents_properly(d, template_path, content_path, out_path, r) ==
  WriteFile(d, out_path, Bytes(Compose(d[template_path].doc, d[content_path].doc)), r)

\* ZipWriteStr with a fault: an entry of the same name is replaced
ZipWriteStr_replace(z, filename, bytes) ==
  IF \E i \in 1..Len(z) : z[i].filename = filename
  THEN [i \in 1..Len(z) |->
          IF z[i].filename = filename THEN [filename |-> filename, data |-> bytes] ELSE z[i]]
  ELSE Append(z, [filename |-> filename, data |-> bytes])

\* zf.writestr(filename, file_bytes): entries are appended, a name already
\* in the archive is not replaced
ZipWriteStr(z, filename, bytes) == Append(z, [filename |-> filename, data |-> bytes])

\* jsonify({'error': msg}), status
JsonError(status, msg) ==
  [status |-> status, kind |-> "json", error |-> msg, download |-> <<>>, body |-> <<>>]

\* the send_file response built from the bytes read (lines 77-107)
SendFile(d) ==
  IF Len(d) = 1
  THEN [status |-> 200, kind |-> "docx", error |-> "",
        download |-> d[1].filename, body |-> d]
  ELSE [status |-> 200, kind |-> "zip", error |-> "",
        download |-> ZipName, body |-> d]

\* paths handed to cleanup_files on the success and the exception path
AllPaths(r) ==
  uploaded_paths[r] \o [i \in 1..Len(merged_paths[r]) |-> merged_paths[r][i].path]

(* ------------------------------ actions ------------------------------- *)

\* return <response>: the handler is left and its locals are gone
Return(r, response) ==
  /\ resp' = [resp EXCEPT ![r] = response]
  /\ pc' = [pc EXCEPT ![r] = "done"]
  /\ idx' = [idx EXCEPT ![r] = 1]
  /\ uploaded_paths' = [uploaded_paths EXCEPT ![r] = <<>>]
  /\ merged_paths' = [merged_paths EXCEPT ![r] = <<>>]
  /\ data' = [data EXCEPT ![r] = <<>>]
  /\ exc' = [exc EXCEPT ![r] = ""]
  /\ written' = [written EXCEPT ![r] = {}]

\* an exception leaves the try block for the except clause (line 109)
Raise(r, msg) ==
  /\ exc' = [exc EXCEPT ![r] = msg]
  /\ raised' = [raised EXCEPT ![r] = TRUE]
  /\ pc' = [pc EXCEPT ![r] = "except"]

\* Validate with a fault: the template's extension is not checked
Validate_no_extension_check(r) ==
  /\ pc[r] = "start"
  /\ IF ~request[r].has_template \/ ~request[r].has_content
     THEN Return(r, JsonError(400, "Missing files"))
     ELSE IF request[r].template = <<>> \/ request[r].content = <<>>
     THEN Return(r, JsonError(400, "No files provided"))
     ELSE /\ pc' = [pc EXCEPT ![r] = "save_template"]
          /\ UNCHANGED <<resp, idx, uploaded_paths, merged_paths, data, exc, written>>
  /\ UNCHANGED <<request, clock, disk, raised, rmfail, cleaned, faults>>

\* lines 40-50: request validation
Validate(r) ==
  /\ pc[r] = "start"
  /\ IF ~request[r].has_template \/ ~request[r].has_content
     THEN Return(r, JsonError(400, "Missing files"))
     ELSE IF request[r].template = <<>> \/ request[r].content = <<>>
     THEN Return(r, JsonError(400, "No files provided"))
     ELSE IF ~allowed_file(request[r].template)
     THEN Return(r, JsonError(400, "Template must be a .docx file"))
     ELSE /\ pc' = [pc EXCEPT ![r] = "save_template"]
          /\ UNCHANGED <<resp, idx, uploaded_paths, merged_paths, data, exc, written>>
  /\ UNCHANGED <<request, clock, disk, raised, rmfail, cleaned, faults>>

\* lines 53-57: the template is saved under a timestamped name, and the path
\* is recorded once save() has returned
SaveTemplate(r, o, t) ==
  /\ pc[r] = "save_template"
  /\ t \in Now
  /\ clock' = t
  /\ LET template_path == UploadPath(t, request[r].template)
     IN CASE o = "ok" ->
               /\ disk' = WriteFile(disk, template_path, Bytes(TemplateDoc(r)), r)
               /\ written' = [written EXCEPT ![r] = @ \cup {template_path}]
               /\ uploaded_paths' = [uploaded_paths EXCEPT ![r] = Append(@, template_path)]
               /\ pc' = [pc EXCEPT ![r] = "loop"]
               /\ UNCHANGED <<exc, raised>>
          [] o = "partial" ->
               /\ disk' = WriteFile(disk, template_path, Truncated, r)
               /\ written' = [written EXCEPT ![r] = @ \cup {template_path}]
               /\ Raise(r, "template_file.save failed")
               /\ UNCHANGED uploaded_paths
          [] o = "nofile" ->
               /\ Raise(r, "template_file.save failed")
               /\ UNCHANGED <<disk, written, uploaded_paths>>
  /\ Inject(IF o = "ok" THEN 0 ELSE 1)
  /\ UNCHANGED <<request, idx, merged_paths, data, resp, rmfail, cleaned>>

\* SkipInvalid with a fault: a content file failing allowed_file rejects the request
SkipInvalid_reject(r) ==
  /\ pc[r] = "loop"
  /\ idx[r] <= Len(request[r].content)
  /\ ~allowed_file(request[r].content[idx[r]])
  /\ Return(r, JsonError(400, "Content files must be .docx files"))
  /\ UNCHANGED <<request, clock, disk, raised, rmfail, cleaned, faults>>

\* lines 60-62: a content file failing allowed_file is passed over
SkipInvalid(r) ==
  /\ pc[r] = "loop"
  /\ idx[r] <= Len(request[r].content)
  /\ ~allowed_file(request[r].content[idx[r]])
  /\ idx' = [idx EXCEPT ![r] = @ + 1]
  /\ UNCHANGED <<request, clock, disk, pc, uploaded_paths, merged_paths, data,
                 exc, resp, written, raised, rmfail, cleaned, faults>>

\* lines 63-66: a content file is saved under a timestamped name
SaveContent(r, o, t) ==
  /\ pc[r] = "loop"
  /\ idx[r] <= Len(request[r].content)
  /\ allowed_file(request[r].content[idx[r]])
  /\ t \in Now
  /\ clock' = t
  /\ LET content_path == UploadPath(t, request[r].content[idx[r]])
     IN CASE o = "ok" ->
               /\ disk' = WriteFile(disk, content_path, Bytes(ContentDoc(r, idx[r])), r)
               /\ written' = [written EXCEPT ![r] = @ \cup {content_path}]
               /\ uploaded_paths' = [uploaded_paths EXCEPT ![r] = Append(@, content_path)]
               /\ pc' = [pc EXCEPT ![r] = "merge"]
               /\ UNCHANGED <<exc, raised>>
          [] o = "partial" ->
               /\ disk' = WriteFile(disk, content_path, Truncated, r)
               /\ written' = [written EXCEPT ![r] = @ \cup {content_path}]
               /\ Raise(r, "cf.save failed")
               /\ UNCHANGED uploaded_paths
          [] o = "nofile" ->
               /\ Raise(r, "cf.save failed")
               /\ UNCHANGED <<disk, written, uploaded_paths>>
  /\ Inject(IF o = "ok" THEN 0 ELSE 1)
  /\ UNCHANGED <<request, idx, merged_paths, data, resp, rmfail, cleaned>>

\* lines 68-70 and 118-144: the merge of the current content file. Loading a
\* missing or truncated file raises; composer.save may raise before or after
\* the output file exists
Merge(r, o, t) ==
  /\ pc[r] = "merge"
  /\ t \in Now
  /\ clock' = t
  /\ LET template_path == uploaded_paths[r][1]
         content_path == uploaded_paths[r][Len(uploaded_paths[r])]
         out_basename == OutBasename(request[r].content[idx[r]])
         out_path == MergedPath(t, out_basename)
         loaded == Loadable(disk, template_path) /\ Loadable(disk, content_path)
     IN
     /\ CASE o = "ok" /\ loaded ->
               /\ disk' = merge_documents_properly(disk, template_path, content_path, out_path, r)
               /\ written' = [written EXCEPT ![r] = @ \cup {out_path}]
               /\ merged_paths' = [merged_paths EXCEPT ![r] =
                                     Append(@, [filename |-> out_basename, path |-> out_path])]
               /\ idx' = [idx EXCEPT ![r] = @ + 1]
               /\ pc' = [pc EXCEPT ![r] = "loop"]
               /\ UNCHANGED <<exc, raised>>
          [] o = "partial" /\ loaded ->
               /\ disk' = WriteFile(disk, out_path, Truncated, r)
               /\ written' = [written EXCEPT ![r] = @ \cup {out_path}]
               /\ Raise(r, "merge_documents_properly failed")
               /\ UNCHANGED <<merged_paths, idx>>
          [] OTHER ->
               /\ Raise(r, "merge_documents_properly failed")
               /\ UNCHANGED <<disk, written, merged_paths, idx>>
     /\ Inject(IF loaded /\ o # "ok" THEN 1 ELSE 0)
  /\ UNCHANGED <<request, uploaded_paths, data, resp, rmfail, cleaned>>

\* where the handler goes once the for loop has ended (lines 72, 76)
AfterLoop(merged) == IF merged = <<>> THEN "no_valid" ELSE "read"

\* line 72: the for loop is exhausted
EndLoop(r) ==
  /\ pc[r] = "loop"
  /\ idx[r] > Len(request[r].content)
  /\ pc' = [pc EXCEPT ![r] = AfterLoop(merged_paths[r])]
  /\ UNCHANGED <<request, clock, disk, idx, uploaded_paths, merged_paths, data,
                 exc, resp, written, raised, rmfail, cleaned, faults>>

\* lines 73-74: nothing was merged
NoValid(r, fail) ==
  /\ pc[r] = "no_valid"
  /\ fail \in RmFailures(disk, uploaded_paths[r])
  /\ disk' = cleanup_files(disk, uploaded_paths[r], fail)
  /\ rmfail' = [rmfail EXCEPT ![r] = @ \cup fail]
  /\ cleaned' = [cleaned EXCEPT ![r] = @ + 1]
  /\ Return(r, JsonError(400, "No valid .docx content files uploaded"))
  /\ Inject(Cardinality(fail))
  /\ UNCHANGED <<request, clock, raised>>

\* AfterRead with a fault: cleanup_files is called after the first read
AfterRead_early(nread, nmerged) == "cleanup"

\* where the handler goes after reading one merged file: cleanup_files is
\* called once every merged file has been read (lines 82, 101)
AfterRead(nread, nmerged) == IF nread = nmerged THEN "cleanup" ELSE "read"

\* lines 78-80 and 95-98: the next merged file is read into memory; open()
\* raises when the file is gone, and packaging may raise
Read(r, o) ==
  /\ pc[r] = "read"
  /\ LET m == merged_paths[r][Len(data[r]) + 1]
     IN IF o = "ok" /\ m.path \in DOMAIN disk
        THEN /\ data' = [data EXCEPT ![r] =
                           ZipWriteStr(@, m.filename,
                                       [doc |-> disk[m.path].doc, ok |-> disk[m.path].ok])]
             /\ pc' = [pc EXCEPT ![r] = AfterRead(Len(data[r]) + 1, Len(merged_paths[r]))]
             /\ UNCHANGED <<exc, raised>>
        ELSE /\ Raise(r, "reading merged file failed")
             /\ UNCHANGED data
  /\ Inject(IF o # "ok" /\ merged_paths[r][Len(data[r]) + 1].path \in DOMAIN disk
            THEN 1 ELSE 0)
  /\ UNCHANGED <<request, clock, disk, idx, uploaded_paths, merged_paths,
                 resp, written, rmfail, cleaned>>

\* lines 82 and 101: the files of the request are deleted
Cleanup(r, fail) ==
  /\ pc[r] = "cleanup"
  /\ fail \in RmFailures(disk, AllPaths(r))
  /\ disk' = cleanup_files(disk, AllPaths(r), fail)
  /\ rmfail' = [rmfail EXCEPT ![r] = @ \cup fail]
  /\ cleaned' = [cleaned EXCEPT ![r] = @ + 1]
  /\ pc' = [pc EXCEPT ![r] = "send"]
  /\ Inject(Cardinality(fail))
  /\ UNCHANGED <<request, clock, idx, uploaded_paths, merged_paths, data,
                 exc, resp, written, raised>>

\* lines 85-90 and 102-107: the in-memory result is returned
Send(r) ==
  /\ pc[r] = "send"
  /\ Return(r, SendFile(data[r]))
  /\ UNCHANGED <<request, clock, disk, raised, rmfail, cleaned, faults>>

\* Except with a fault: what was produced so far is returned
Except_partial(r, fail) ==
  /\ pc[r] = "except"
  /\ fail \in RmFailures(disk, AllPaths(r))
  /\ disk' = cleanup_files(disk, AllPaths(r), fail)
  /\ rmfail' = [rmfail EXCEPT ![r] = @ \cup fail]
  /\ cleaned' = [cleaned EXCEPT ![r] = @ + 1]
  /\ Return(r, SendFile(data[r]))
  /\ Inject(Cardinality(fail))
  /\ UNCHANGED <<request, clock, raised>>

\* lines 109-116: the except clause
Except(r, fail) ==
  /\ pc[r] = "except"
  /\ fail \in RmFailures(disk, AllPaths(r))
  /\ disk' = cleanup_files(disk, AllPaths(r), fail)
  /\ rmfail' = [rmfail EXCEPT ![r] = @ \cup fail]
  /\ cleaned' = [cleaned EXCEPT ![r] = @ + 1]
  /\ Return(r, JsonError(500, exc[r]))
  /\ Inject(Cardinality(fail))
  /\ UNCHANGED <<request, clock, raised>>

\* one step of the handler of request r
Step(r) ==
  \/ Validate(r)
  \/ \E o \in SaveOutcomes, t \in Now : SaveTemplate(r, o, t)
  \/ SkipInvalid(r)
  \/ \E o \in SaveOutcomes, t \in Now : SaveContent(r, o, t)
  \/ \E o \in SaveOutcomes, t \in Now : Merge(r, o, t)
  \/ EndLoop(r)
  \/ \E fail \in RmFailures(disk, uploaded_paths[r]) : NoValid(r, fail)
  \/ \E o \in {"ok", "raise"} : Read(r, o)
  \/ \E fail \in RmFailures(disk, AllPaths(r)) : Cleanup(r, fail)
  \/ Send(r)
  \/ \E fail \in RmFailures(disk, AllPaths(r)) : Except(r, fail)

Next == \E r \in Reqs : Step(r)

Spec == Init /\ [][Next]_vars

(* ------------------------------- claims ------------------------------- *)

\* the content files of a request that pass the extension check, in order
\* (f @@ <<>> is f, built once as a table)
ValidContentOf == [f \in RequestInputs |-> SelectSeq(f.content, allowed_file)] @@ <<>>
ValidContent(r) == ValidContentOf[request[r]]

\* the output filename the handler computes for each content filename
OutBasenameOf == [n \in ContentNames |-> OutBasename(n)] @@ <<>>

\* the request passes request validation (lines 40-50)
PassesValidation(r) ==
  /\ request[r].has_template
  /\ request[r].has_content
  /\ allowed_file(request[r].template)

Done(r) == pc[r] = "done"

NoValidMsg == "No valid .docx content files uploaded"

\* C1 (as claimed): when the handler has returned, whatever the outcome, no
\* file created by that request is left in the upload directory.
C1_NoFileLeftAfterReturn ==
  \A r \in Reqs : Done(r) => \A p \in DOMAIN disk : disk[p].owner # r

\* C2 (as claimed): no path written by a request equals a path written by
\* another request running at the same time.
C2_PathsOfRequestsDisjoint ==
  \A r, s \in Reqs : r # s => written[r] \cap written[s] = {}

\* C3: a 200 response delivers exactly one merged document per content file
\* that passed the extension check, in order and under the computed output
\* filename: the document itself when there is one, the archive
\* merged_documents.zip with one entry per file (equal names included) when
\* there are more; and a validated request with a valid content file in which
\* nothing raised gets a 200 response.
C3_ExactlyNDocuments ==
  \A r \in Reqs :
    LET v == ValidContent(r) IN
    /\ (Done(r) /\ resp[r].status = 200) =>
         /\ Len(v) >= 1
         /\ Len(resp[r].body) = Len(v)
         /\ \A i \in 1..Len(v) : resp[r].body[i].filename = OutBasenameOf[v[i]]
         /\ Len(v) = 1 => resp[r].kind = "docx" /\ resp[r].download = OutBasenameOf[v[1]]
         /\ Len(v) >= 2 => resp[r].kind = "zip" /\ resp[r].download = ZipName
    /\ (Done(r) /\ PassesValidation(r) /\ Len(v) >= 1 /\ ~raised[r]) =>
         resp[r].status = 200

\* C3 witness: a zip response whose two entries carry the same name
C3_Witness ==
  \E r \in Reqs :
    /\ Done(r) /\ resp[r].status = 200 /\ resp[r].kind = "zip"
    /\ Len(resp[r].body) = 2
    /\ resp[r].body[1].filename = resp[r].body[2].filename

\* the output filename the interface describes: the (sanitised) content
\* filename without its document extension, followed by the fixed suffix
ExtensionReplaced(filename) ==
  LET n == secure_filename(filename)
  IN SubSeq(n, 1, Len(n) - Len(DotDocx)) \o WithCover
ExtensionReplacedOf ==
  [n \in {m \in ContentNames : allowed_file(m)} |-> ExtensionReplaced(n)] @@ <<>>

\* C4 (as claimed): every document of a 200 response is named after its
\* content file with the extension replaced by _with_cover.docx, whatever the
\* case of the extension.
C4_ExtensionReplaced ==
  \A r \in Reqs :
    (Done(r) /\ resp[r].status = 200) =>
      \A i \in 1..Len(resp[r].body) :
        i <= Len(ValidContent(r)) =>
          resp[r].body[i].filename = ExtensionReplacedOf[ValidContent(r)[i]]

\* C5: a request failing validation (template field missing, content field
\* missing, template name not ending in .docx) never writes a file, never
\* enters the processing steps, and is answered 400.
C5_InvalidRequestWritesNothing ==
  \A r \in Reqs :
    ~PassesValidation(r) =>
      /\ pc[r] \in {"start", "done"}
      /\ written[r] = {}
      /\ \A p \in DOMAIN disk : disk[p].owner # r
      /\ ~raised[r] /\ cleaned[r] = 0
      /\ Done(r) => resp[r].status = 400 /\ resp[r].kind = "json"

\* C5 witness: a template named t.txt was answered 400
C5_Witness ==
  \E r \in Reqs :
    /\ Done(r) /\ request[r].template = N_t_txt
    /\ resp[r] = JsonError(400, "Template must be a .docx file")

\* the paths a request may write given its template and valid content files
PathsOfValidFilesOf ==
  [f \in RequestInputs |->
     LET v == ValidContentOf[f] IN
     {UploadPath(t, f.template) : t \in 0..MaxClock}
     \cup {UploadPath(t, v[i]) : t \in 0..MaxClock, i \in 1..Len(v)}
     \cup {MergedPath(t, OutBasenameOf[v[i]]) : t \in 0..MaxClock, i \in 1..Len(v)}]
  @@ <<>>
PathsOfValidFiles(r) == PathsOfValidFilesOf[request[r]]

\* C6 (as claimed): with a valid template the request is answered 400 "No
\* valid .docx content files uploaded" exactly when no content file passes
\* the extension check.
C6_NoValidIffNonePasses ==
  \A r \in Reqs :
    (Done(r) /\ PassesValidation(r)) =>
      (resp[r] = JsonError(400, NoValidMsg) <=> ValidContent(r) = <<>>)

\* C6 (amended): with a valid template, content files failing the check are
\* never saved or merged and do not fail the request; the answer is 400 "No
\* valid ..." exactly when no content file passes the check and saving the
\* template did not raise (an exception gives 500); with a content file
\* passing and no exception the answer is 200, made of the passing files only.
C6_InvalidContentSkipped ==
  \A r \in Reqs :
    PassesValidation(r) =>
      /\ written[r] \subseteq PathsOfValidFiles(r)
      /\ Done(r) =>
           /\ resp[r] = JsonError(400, NoValidMsg)
                <=> (ValidContent(r) = <<>> /\ ~raised[r])
           /\ resp[r].status = 400 => resp[r] = JsonError(400, NoValidMsg)
           /\ resp[r].status = 500 <=> raised[r]
           /\ (ValidContent(r) # <<>> /\ ~raised[r]) =>
                /\ resp[r].status = 200
                /\ Len(resp[r].body) = Len(ValidContent(r))
                /\ \A i \in 1..Len(ValidContent(r)) :
                     resp[r].body[i].filename = OutBasenameOf[ValidContent(r)[i]]

\* C6 witness: a request with a skipped content file was answered 200
C6_Witness ==
  \E r \in Reqs :
    /\ Done(r) /\ resp[r].status = 200
    /\ Len(ValidContent(r)) < Len(request[r].content)

\* C7: a 200 response holds a document for every content file that passed
\* the check and is given only when nothing raised; once anything raised the
\* response is a 500 error carrying no document.
C7_NoPartialResults ==
  \A r \in Reqs :
    /\ (Done(r) /\ resp[r].status = 200) =>
         /\ ~raised[r]
         /\ Len(resp[r].body) = Len(ValidContent(r))
    /\ (Done(r) /\ raised[r]) =>
         /\ resp[r].status = 500 /\ resp[r].kind = "json"
         /\ resp[r].body = <<>>

\* C7 witness: both content files were merged, then reading them back
\* failed, and the request was answered 500
C7_Witness ==
  \E r \in Reqs :
    /\ Done(r) /\ raised[r] /\ Len(ValidContent(r)) = 2
    /\ resp[r] = JsonError(500, "reading merged file failed")

\* the paths a request hands to cleanup_files at its position
CleanupPaths(r) == IF pc[r] = "no_valid" THEN uploaded_paths[r] ELSE AllPaths(r)

\* the handler of r is at one of its statements and has what the statement
\* uses: it can take its next step
InHandler(r) ==
  /\ pc[r] \in {"start", "save_template", "loop", "merge", "no_valid", "read",
                "cleanup", "send", "except"}
  /\ pc[r] = "merge" => uploaded_paths[r] # <<>> /\ idx[r] <= Len(request[r].content)
  /\ pc[r] = "read" => Len(data[r]) < Len(merged_paths[r])
  /\ pc[r] = "except" => raised[r] /\ exc[r] # ""

\* C8: an exception in the try block always ends in a 500 response with the
\* exception's message, and a handler that has not returned can always take
\* its next step (no exception leaves it); a call of cleanup_files removes
\* every listed path whose os.remove did not raise, and the response is the
\* one the position calls for (200 after the success path, 400 when nothing
\* was valid, 500 in the except clause) whether or not a removal failed.
C8_ExceptionsCaughtCleanupSilent ==
  /\ [](\A r \in Reqs :
          /\ (Done(r) /\ raised[r]) =>
               resp[r].status = 500 /\ resp[r].kind = "json" /\ resp[r].error # ""
          /\ ~Done(r) => InHandler(r))
  /\ [][\A r \in Reqs :
          /\ (pc[r] = "except" /\ pc'[r] # "except") =>
               pc'[r] = "done" /\ resp'[r] = JsonError(500, exc[r])
          /\ (pc[r] = "no_valid" /\ pc'[r] # "no_valid") =>
               pc'[r] = "done" /\ resp'[r] = JsonError(400, NoValidMsg)
          /\ (pc[r] = "cleanup" /\ pc'[r] # "cleanup") => pc'[r] = "send"
          /\ (pc[r] = "send" /\ pc'[r] # "send") =>
               pc'[r] = "done" /\ resp'[r].status = 200
          /\ cleaned'[r] # cleaned[r] =>
               \A p \in Range(CleanupPaths(r)) :
                 p \notin rmfail'[r] => p \notin DOMAIN disk'
       ]_vars

\* C8 witness: removing the first listed path (the template) failed, the
\* others were removed all the same, and the success path goes on
C8_Witness ==
  \E r \in Reqs :
    /\ pc[r] = "send" /\ Len(AllPaths(r)) >= 3
    /\ rmfail[r] = {uploaded_paths[r][1]}
    /\ \A p \in Range(AllPaths(r)) \ rmfail[r] : p \notin DOMAIN disk

IsPageBreak(part) == part = PageBreak

C10_ReadThenCleanupThenReturn ==
  \A r \in Reqs :
    /\ pc[r] \in {"start", "save_template", "loop", "merge", "read", "cleanup"} =>
         cleaned[r] = 0
    /\ pc[r] = "send" =>
         /\ cleaned[r] = 1
         /\ idx[r] > Len(request[r].content)
         /\ Len(merged_paths[r]) = Len(ValidContent(r))
         /\ Len(data[r]) = Len(merged_paths[r])
    /\ resp[r].status = 200 => cleaned[r] = 1 /\ Done(r)

\* C10 witness: two merged files were read, cleanup_files has run, and the
\* response is not yet returned
C10_Witness ==
  \E r \in Reqs :
    pc[r] = "send" /\ Len(data[r]) = 2 /\ cleaned[r] = 1 /\ resp[r].status = 0

====
